---- MODULE Spec2Model ----
(***************************************************************************)
(* mdterm: markdown rendered as half-block pixel art.                      *)
(*                                                                         *)
(* A string is a sequence of characters; a character is a one-token        *)
(* string.  The non-ASCII characters of the program are named:             *)
(*   "BULLET" U+2022, "FULL" U+2588, "UPPER" U+2580, "LOWER" U+2584,       *)
(*   "TOP" / "BOTTOM" the text of a code block's border (without its \n).  *)
(* "z" stands for a non-whitespace character whose glyph is empty          *)
(* (such as U+200B).                                                       *)
(***************************************************************************)
EXTENDS Integers, Sequences, FiniteSets, TLC

VARIABLES
    pc,             \* position of the running operation
    width,          \* TerminalRenderer.width
    hasFont,        \* FontRenderer.font.is_some()
    text,           \* the &str argument of the running operation
    result,         \* the String the running operation builds
    words, wi,      \* render_text: the split words, the loop position
    wrap,           \* render_text: [lines, current_line, current_width]
    code_lines, li, \* render_code_block: code.lines(), the loop position
    frames,         \* render_code_block: one render_line_pixels record per line
    out_lines,      \* render_list_item: the emitted lines, with their parts
    item_blocks,    \* render_list_item: [bullet_lines, content_lines, bullet_width]
    qbuf, qout,     \* the quantizer alone: its pixel buffer and its output
    args,           \* main: [stdin, file]
    io,             \* main: [stderr, stdout, exit]
    lines_in, pi,   \* parse_markdown: content.lines(), the loop position
    parser,         \* parse_markdown: [elements, current_content, current_type]
    arms            \* process_markdown: the match arm taken for each element

vars == <<pc, width, hasFont, text, result, words, wi, wrap, code_lines, li,
          frames, out_lines, item_blocks, qbuf, qout, args, io, lines_in, pi,
          parser, arms>>

(***************************************************************************)
(* Bounds of the model                                                     *)
(***************************************************************************)
MaxLen == 4         \* longest text given to render_code_block and render_list_item
MaxTextLen == 5     \* longest text given to render_text
MaxWidth == 9       \* largest configured render width
MaxLines == 3       \* most lines of a markdown document
MaxBufW == 2        \* quantizer alone: widest pixel buffer
MaxBufH == 3        \* quantizer alone: tallest pixel buffer

(***************************************************************************)
(* Generic helpers                                                         *)
(***************************************************************************)
Max(a, b) == IF a >= b THEN a ELSE b
Min(a, b) == IF a <= b THEN a ELSE b
SeqsUpTo(S, n) == UNION {[1..k -> S] : k \in 0..n}
Last(s) == s[Len(s)]

RECURSIVE Flatten(_)
Flatten(ss) == IF ss = <<>> THEN <<>> ELSE Head(ss) \o Flatten(Tail(ss))

RECURSIVE SumSeq(_)
SumSeq(s) == IF s = <<>> THEN 0 ELSE Head(s) + SumSeq(Tail(s))

Spaces(n) == [k \in 1..n |-> " "]

(***************************************************************************)
(* The standard library's string operations                                *)
(***************************************************************************)
\* char::is_whitespace, on the characters of the model
IsWhitespace(c) == c \in {" ", "\n"}

\* str::split_whitespace: the maximal runs of non-whitespace characters
RECURSIVE SplitWsFrom(_, _, _)
SplitWsFrom(s, cur, acc) ==
    IF s = <<>> THEN (IF cur = <<>> THEN acc ELSE Append(acc, cur))
    ELSE IF IsWhitespace(Head(s))
         THEN SplitWsFrom(Tail(s), <<>>, IF cur = <<>> THEN acc ELSE Append(acc, cur))
         ELSE SplitWsFrom(Tail(s), Append(cur, Head(s)), acc)
SplitWhitespace(s) == SplitWsFrom(s, <<>>, <<>>)

\* str::lines: split at every \n, a final empty piece is not a line
RECURSIVE StrLinesFrom(_, _, _)
StrLinesFrom(s, cur, acc) ==
    IF s = <<>> THEN (IF cur = <<>> THEN acc ELSE Append(acc, cur))
    ELSE IF Head(s) = "\n"
         THEN StrLinesFrom(Tail(s), <<>>, Append(acc, cur))
         ELSE StrLinesFrom(Tail(s), Append(cur, Head(s)), acc)
StrLines(s) == StrLinesFrom(s, <<>>, <<>>)

\* str::split(' '): split at every single space, empty pieces kept
RECURSIVE SplitSpaceFrom(_, _, _)
SplitSpaceFrom(s, cur, acc) ==
    IF s = <<>> THEN Append(acc, cur)
    ELSE IF Head(s) = " "
         THEN SplitSpaceFrom(Tail(s), <<>>, Append(acc, cur))
         ELSE SplitSpaceFrom(Tail(s), Append(cur, Head(s)), acc)
SplitSpace(s) == SplitSpaceFrom(s, <<>>, <<>>)

\* the UTF-8 length of one character
Utf8Len(c) == IF c \in {"BULLET", "FULL", "UPPER", "LOWER"} THEN 3 ELSE 1
\* str::len: the length in bytes
ByteLen(s) == SumSeq([k \in 1..Len(s) |-> Utf8Len(s[k])])
\* str::chars().count()
CharLen(s) == Len(s)
\* format!("{:<w$}", s): padded with spaces to w characters, never cut
PadLeftAligned(s, w) == IF CharLen(s) >= w THEN s ELSE s \o Spaces(w - CharLen(s))

(***************************************************************************)
(* FontRenderer (font.rs).  The font itself is fontdue's; the model has a  *)
(* small font whose glyphs differ in every dimension the renderer reads.   *)
(***************************************************************************)
FallbackAdvance == 4    \* (8.0 * 0.6) as usize
threshold == 64
MinSpaceWidth == 4
MinCharAdvance == 1
EmptyGlyphAdvance == 4
DefaultBulletWidth == 2

\* font.rasterize(ch, size): (bitmap, width, height)
FontGlyph(ch) ==
    CASE ch = "i"      -> [bitmap |-> <<255, 63, 64>>, width |-> 1, height |-> 3]
      [] ch = "M"      -> [bitmap |-> <<64, 0, 255, 255, 63, 64, 0, 255, 0, 63, 0, 64>>,
                           width |-> 3, height |-> 4]
      [] ch = "BULLET" -> [bitmap |-> <<255, 64, 63, 0>>, width |-> 2, height |-> 2]
      [] OTHER         -> [bitmap |-> <<>>, width |-> 0, height |-> 0]

\* font.metrics(ch, size).advance_width as usize
FontAdvance(ch) ==
    CASE ch = "i"      -> 2
      [] ch = "M"      -> 2
      [] ch = "BULLET" -> 3
      [] ch = " "      -> 2
      [] OTHER         -> 0

rasterize_char(ch) ==
    IF hasFont THEN FontGlyph(ch) ELSE [bitmap |-> <<>>, width |-> 0, height |-> 0]

get_char_advance(ch) == IF hasFont THEN FontAdvance(ch) ELSE FallbackAdvance

(***************************************************************************)
(* TerminalRenderer::render_line_pixels (terminal.rs 80-175)               *)
(***************************************************************************)
\* lines 95-103: one Glyph per character
Glyph(ch) ==
    LET r == rasterize_char(ch) IN
    [bitmap |-> r.bitmap, width |-> r.width, height |-> r.height,
     advance |-> Max(get_char_advance(ch),
                     IF r.width > 0 THEN r.width ELSE EmptyGlyphAdvance)]
Glyphs(s) == [k \in 1..Len(s) |-> Glyph(s[k])]
TotalWidth(glyphs) == SumSeq([k \in 1..Len(glyphs) |-> glyphs[k].advance])

RECURSIVE MaxHeight(_)
MaxHeight(glyphs) ==
    IF glyphs = <<>> THEN 0 ELSE Max(Head(glyphs).height, MaxHeight(Tail(glyphs)))

\* line 110
RenderWidthUncapped(total_width, max_px_width) == total_width
RenderWidth(total_width, max_px_width) == Min(total_width, max_px_width)

\* line 130: the clip test of one destination pixel
InBufferRowOnly(dst_x, dst_y, render_width, max_height) == dst_y < max_height
InBuffer(dst_x, dst_y, render_width, max_height) ==
    dst_x < render_width /\ dst_y < max_height

\* lines 120-124
YOffset(max_height, glyph) ==
    IF max_height > glyph.height THEN max_height - glyph.height ELSE 0

\* lines 125-137: the buffer writes of one glyph placed at x_offset
GlyphWrites(glyph, gi, x_offset, render_width, max_height) ==
    { [glyph |-> gi, gx |-> gx, gy |-> gy,
       dst_x |-> x_offset + gx,
       dst_y |-> YOffset(max_height, glyph) + gy,
       dst_idx |-> (YOffset(max_height, glyph) + gy) * render_width + x_offset + gx,
       value |-> glyph.bitmap[gy * glyph.width + gx + 1]] :
      <<gx, gy>> \in { p \in (0..(glyph.width - 1)) \X (0..(glyph.height - 1)) :
          /\ InBuffer(x_offset + p[1], YOffset(max_height, glyph) + p[2],
                      render_width, max_height)
          /\ p[2] * glyph.width + p[1] < Len(glyph.bitmap) } }

\* the buffer after the writes ws, made in the order of the loops (gy, then gx)
Blit(pixels, ws, glyph) ==
    [idx \in DOMAIN pixels |->
        LET here == {w \in ws : w.dst_idx = idx} IN
        IF here = {} THEN pixels[idx]
        ELSE (CHOOSE w \in here : \A v \in here :
                 v.gy * glyph.width + v.gx <= w.gy * glyph.width + w.gx).value]

\* lines 115-139: the glyphs from gi on, the cursor at x_offset
RECURSIVE PlaceGlyphs(_, _, _, _, _, _)
PlaceGlyphs(glyphs, gi, x_offset, acc, render_width, max_height) ==
    IF gi > Len(glyphs) \/ x_offset >= render_width THEN acc
    ELSE LET ws == GlyphWrites(glyphs[gi], gi, x_offset, render_width, max_height) IN
         PlaceGlyphs(glyphs, gi + 1, x_offset + glyphs[gi].advance,
                     [pixels |-> Blit(acc.pixels, ws, glyphs[gi]),
                      writes |-> acc.writes \cup ws,
                      placed |-> gi],
                     render_width, max_height)

\* lines 164-169
HalfBlockSwapped(top_on, bot_on) ==
    IF top_on /\ bot_on THEN "FULL"
    ELSE IF top_on THEN "LOWER"
    ELSE IF bot_on THEN "UPPER"
    ELSE " "
HalfBlock(top_on, bot_on) ==
    IF top_on /\ bot_on THEN "FULL"
    ELSE IF top_on THEN "UPPER"
    ELSE IF bot_on THEN "LOWER"
    ELSE " "

\* lines 150-159: a pixel of the buffer, 0 below its last row
PixelOrZero(pixels, y, x, render_width, max_height) ==
    IF y < max_height THEN pixels[y * render_width + x] ELSE 0

\* lines 161-162
IsOn(px) == px >= threshold

\* lines 141-174: the buffer as rows of half-block characters
QuantizeRow(pixels, row, render_width, max_height) ==
    [k \in 1..render_width |->
        HalfBlock(IsOn(PixelOrZero(pixels, row * 2, k - 1, render_width, max_height)),
                  IsOn(PixelOrZero(pixels, row * 2 + 1, k - 1, render_width, max_height)))]
    \o <<"\n">>
Quantize(pixels, render_width, max_height) ==
    Flatten([r \in 1..((max_height + 1) \div 2) |->
                QuantizeRow(pixels, r - 1, render_width, max_height)])

\* the buffer reads of lines 150-159
QuantizeReads(render_width, max_height) ==
    { [x |-> p[2], y |-> p[1], idx |-> p[1] * render_width + p[2]] :
      p \in { q \in (0..(2 * ((max_height + 1) \div 2) - 1)) \X (0..(render_width - 1)) :
              q[1] < max_height } }

\* the whole function: its output and what it computed on the way
RenderLinePixels(s) ==
    LET glyphs == Glyphs(s)
        total_width == TotalWidth(glyphs)
        max_height == MaxHeight(glyphs)
    IN  IF max_height = 0 \/ total_width = 0
        THEN [line |-> s, passthrough |-> TRUE, out |-> s,
              total_width |-> total_width, max_height |-> max_height,
              render_width |-> 0, pixels |-> <<>>, writes |-> {}, reads |-> {},
              placed |-> 0]
        ELSE LET render_width == RenderWidth(total_width, width)
                 blank == [idx \in 0..(render_width * max_height - 1) |-> 0]
                 done == PlaceGlyphs(glyphs, 1, 0,
                                     [pixels |-> blank, writes |-> {}, placed |-> 0],
                                     render_width, max_height)
             IN [line |-> s, passthrough |-> FALSE,
                 out |-> Quantize(done.pixels, render_width, max_height),
                 total_width |-> total_width, max_height |-> max_height,
                 render_width |-> render_width, pixels |-> done.pixels,
                 writes |-> done.writes,
                 reads |-> QuantizeReads(render_width, max_height),
                 placed |-> done.placed]

(***************************************************************************)
(* The inputs of the model                                                 *)
(***************************************************************************)
Alphabet == {" ", "\n", "i", "M", "z"}
WrapAlphabet == {" ", "\n", "i", "z"}
Widths == 0..MaxWidth
\* the two pixel values at the threshold
PixelValues == {threshold - 1, threshold}

NoWrap == [lines |-> <<>>, current_line |-> <<>>, current_width |-> 0]
NoItem == [bullet_lines |-> <<>>, content_lines |-> <<>>, bullet_width |-> 0]
NoBuf == [width |-> 0, height |-> 0, pixels |-> <<>>]
NoArgs == [stdin |-> FALSE, file |-> FALSE]
Running == 0 - 1    \* io.exit while the process has not ended
NoIo == [read |-> "none", stderr |-> <<>>, stdout |-> <<>>, exit |-> Running]

textVars == <<words, wi, wrap>>
codeVars == <<code_lines, li, frames>>
listVars == <<out_lines, item_blocks>>
quantVars == <<qbuf, qout>>
mainVars == <<args, io, lines_in, pi, parser, arms>>

TextIdle == words = <<>> /\ wi = 0 /\ wrap = NoWrap
CodeIdle == code_lines = <<>> /\ li = 0 /\ frames = <<>>
ListIdle == out_lines = <<>> /\ item_blocks = NoItem
QuantIdle == qbuf = NoBuf /\ qout = <<>>
MainIdle == /\ args = NoArgs /\ io = NoIo /\ lines_in = <<>> /\ pi = 0
            /\ parser = [elements |-> <<>>, current_content |-> <<>>,
                         current_type |-> [kind |-> "Paragraph", level |-> 0],
                         branch |-> "none", panicked |-> FALSE]
            /\ arms = <<>>

(***************************************************************************)
(* TerminalRenderer::render_text (terminal.rs 28-77)                       *)
(***************************************************************************)
\* line 43
SpaceWidth == Max(get_char_advance(" "), MinSpaceWidth)

\* lines 50-52
WordWidth(word) ==
    SumSeq([k \in 1..Len(word) |-> Max(get_char_advance(word[k]), MinCharAdvance)])

\* line 57: the word goes on the current line
FitsWithoutSpace(current_width, space_width, word_width, max_px_width) ==
    current_width + word_width <= max_px_width
Fits(current_width, space_width, word_width, max_px_width) ==
    current_width + space_width + word_width <= max_px_width

\* lines 61-64: the current line is closed and the word starts the next one
NewLineDroppingWord(st, word, word_width) ==
    [lines |-> Append(st.lines, st.current_line),
     current_line |-> <<>>, current_width |-> 0]
NewLine(st, word, word_width) ==
    [lines |-> Append(st.lines, st.current_line),
     current_line |-> word, current_width |-> word_width]

\* lines 49-66: one iteration of the loop over the words
WrapStep(st, word) ==
    LET word_width == WordWidth(word) IN
    IF st.current_line = <<>>
    THEN [st EXCEPT !.current_line = word, !.current_width = word_width]
    ELSE IF Fits(st.current_width, SpaceWidth, word_width, width)
    THEN [st EXCEPT !.current_line = st.current_line \o <<" ">> \o word,
                    !.current_width = st.current_width + SpaceWidth + word_width]
    ELSE NewLine(st, word, word_width)

\* lines 67-69
WrapFinish(st) ==
    IF st.current_line # <<>>
    THEN [st EXCEPT !.lines = Append(st.lines, st.current_line)]
    ELSE st

\* lines 45-69 as one computation, for the callers of render_text
RECURSIVE WrapAll(_, _)
WrapAll(st, ws) ==
    IF ws = <<>> THEN WrapFinish(st).lines ELSE WrapAll(WrapStep(st, Head(ws)), Tail(ws))

\* lines 71-76
RenderLines(ls) == Flatten([k \in 1..Len(ls) |-> RenderLinePixels(ls[k]).out])

\* render_text as one computation
RenderText(s) ==
    IF ~hasFont THEN s
    ELSE IF SplitWhitespace(s) = <<>> THEN <<>>
    ELSE RenderLines(WrapAll(NoWrap, SplitWhitespace(s)))

\* lines 29-40
RenderTextBegin ==
    /\ pc = "render_text"
    /\ IF ~hasFont
       THEN /\ result' = text
            /\ pc' = "returned"
            /\ UNCHANGED <<words, wi>>
       ELSE /\ words' = SplitWhitespace(text)
            /\ IF words' = <<>>
               THEN result' = <<>> /\ pc' = "returned" /\ wi' = wi
               ELSE result' = result /\ pc' = "wrap" /\ wi' = 1
    /\ UNCHANGED <<width, hasFont, text, wrap, codeVars, listVars, quantVars, mainVars>>

\* lines 49-66
WrapWord ==
    /\ pc = "wrap"
    /\ wi <= Len(words)
    /\ wrap' = WrapStep(wrap, words[wi])
    /\ wi' = wi + 1
    /\ UNCHANGED <<pc, width, hasFont, text, result, words, codeVars, listVars,
                   quantVars, mainVars>>

\* lines 67-76
WrapEnd ==
    /\ pc = "wrap"
    /\ wi > Len(words)
    /\ wrap' = WrapFinish(wrap)
    /\ result' = RenderLines(wrap'.lines)
    /\ pc' = "returned"
    /\ UNCHANGED <<width, hasFont, text, words, wi, codeVars, listVars, quantVars,
                   mainVars>>

InitText ==
    /\ pc = "render_text"
    /\ width \in Widths
    /\ hasFont \in BOOLEAN
    /\ text \in SeqsUpTo(WrapAlphabet, MaxTextLen)
    /\ result = <<>>
    /\ TextIdle /\ CodeIdle /\ ListIdle /\ QuantIdle /\ MainIdle

NextText == RenderTextBegin \/ WrapWord \/ WrapEnd

SpecText == InitText /\ [][NextText]_vars

(***************************************************************************)
(* Claims about render_text                                                *)
(***************************************************************************)
\* the lines the wrapper has produced so far, the open one last
ProducedLines ==
    IF pc = "wrap" /\ wrap.current_line # <<>>
    THEN Append(wrap.lines, wrap.current_line)
    ELSE wrap.lines

\* the width of a line as the budget measures it: every character's advance,
\* at least 1, and per gap between two words the space's advance, at least 4
MeasuredWidth(line) ==
    LET ws == SplitSpace(line) IN
    SumSeq([k \in 1..Len(ws) |->
              SumSeq([j \in 1..Len(ws[k]) |-> Max(get_char_advance(ws[k][j]), 1)])])
    + (Len(ws) - 1) * Max(get_char_advance(" "), 4)

\* C1 (wrap budget): every line the wrapper produces, a line of one single
\* word excepted, has a measured width of at most the maximum width.
C1_WrapBudget ==
    \A k \in 1..Len(ProducedLines) :
        Len(SplitSpace(ProducedLines[k])) >= 2
            => MeasuredWidth(ProducedLines[k]) <= width

\* a wrap that produced a line of two words and then had to start a new line
C1_Witness ==
    /\ pc = "returned" /\ hasFont
    /\ Len(wrap.lines) >= 2
    /\ Len(SplitSpace(wrap.lines[1])) >= 2
    /\ MeasuredWidth(wrap.lines[1]) = width

\* the words of s, read off its characters: a word starts at a non-whitespace
\* character that follows a whitespace character or nothing, and runs up to
\* the next whitespace character or the end
WordStarts(s) ==
    {i \in 1..Len(s) : ~IsWhitespace(s[i]) /\ (i = 1 \/ IsWhitespace(s[i - 1]))}
WordEnd(s, i) ==
    CHOOSE j \in i..Len(s) :
        /\ \A m \in i..j : ~IsWhitespace(s[m])
        /\ (j = Len(s) \/ IsWhitespace(s[j + 1]))
RECURSIVE WordsFrom(_, _)
WordsFrom(s, starts) ==
    IF starts = {} THEN <<>>
    ELSE LET i == CHOOSE m \in starts : \A n \in starts : m <= n IN
         <<SubSeq(s, i, WordEnd(s, i))>> \o WordsFrom(s, starts \ {i})
WordsOf(s) == WordsFrom(s, WordStarts(s))

\* C2 (wrap totality): the produced lines, each split at its single spaces
\* and taken in order, are exactly the words of the input consumed so far,
\* none lost, duplicated, split or reordered; no produced line is empty, and
\* an input without words gives no lines.
C2_WrapTotality ==
    (hasFont /\ pc \in {"wrap", "returned"}) =>
        /\ Flatten([k \in 1..Len(ProducedLines) |-> SplitSpace(ProducedLines[k])])
             = SubSeq(WordsOf(text), 1, IF pc = "wrap" THEN wi - 1 ELSE Len(WordsOf(text)))
        /\ \A k \in 1..Len(ProducedLines) : ProducedLines[k] # <<>>
        /\ (WordsOf(text) = <<>> => wrap.lines = <<>> /\ result = <<>>)

\* a finished wrap onto two lines or more of words that a newline and a run
\* of more than one whitespace character separate
C2_Witness ==
    /\ pc = "returned" /\ hasFont
    /\ Len(wrap.lines) >= 2
    /\ \E i \in 1..Len(text) : text[i] = "\n"
    /\ \E i \in 1..(Len(text) - 1) : IsWhitespace(text[i]) /\ IsWhitespace(text[i + 1])

(***************************************************************************)
(* TerminalRenderer::render_code_block (terminal.rs 177-185)               *)
(***************************************************************************)
\* line 178
CodeBlockBegin ==
    /\ pc = "render_code_block"
    /\ result' = <<"TOP", "\n">>
    /\ code_lines' = StrLines(text)
    /\ li' = 1
    /\ pc' = "code_lines"
    /\ UNCHANGED <<width, hasFont, text, frames, textVars, listVars, quantVars, mainVars>>

\* lines 179-182: one line of the code
CodeBlockLine ==
    /\ pc = "code_lines"
    /\ li <= Len(code_lines)
    /\ LET rendered == RenderLinePixels(code_lines[li]) IN
        /\ result' = result \o rendered.out
        /\ frames' = Append(frames, rendered)
    /\ li' = li + 1
    /\ UNCHANGED <<pc, width, hasFont, text, code_lines, textVars, listVars, quantVars,
                   mainVars>>

\* lines 183-184
CodeBlockEnd ==
    /\ pc = "code_lines"
    /\ li > Len(code_lines)
    /\ result' = result \o <<"BOTTOM", "\n">>
    /\ pc' = "code_block_returned"
    /\ UNCHANGED <<width, hasFont, text, code_lines, li, frames, textVars, listVars,
                   quantVars, mainVars>>

InitCode ==
    /\ pc = "render_code_block"
    /\ width \in Widths
    /\ hasFont \in BOOLEAN
    /\ text \in SeqsUpTo(Alphabet, MaxLen)
    /\ result = <<>>
    /\ TextIdle /\ CodeIdle /\ ListIdle /\ QuantIdle /\ MainIdle

NextCode == CodeBlockBegin \/ CodeBlockLine \/ CodeBlockEnd

SpecCode == InitCode /\ [][NextCode]_vars

(***************************************************************************)
(* The quantizer of render_line_pixels (terminal.rs 141-174) on its own    *)
(***************************************************************************)
QuantizeBuffer ==
    /\ pc = "quantize"
    /\ qout' = Quantize(qbuf.pixels, qbuf.width, qbuf.height)
    /\ pc' = "quantized"
    /\ UNCHANGED <<width, hasFont, text, result, qbuf, textVars, codeVars, listVars,
                   mainVars>>

\* the buffers render_line_pixels builds have a height of 1 or more
InitQuant ==
    /\ pc = "quantize"
    /\ width = 0 /\ hasFont = TRUE /\ text = <<>> /\ result = <<>>
    /\ qbuf \in UNION { UNION { { [width |-> w, height |-> h, pixels |-> px] :
                                   px \in [0..(w * h - 1) -> PixelValues] } :
                                 h \in 1..MaxBufH } :
                        w \in 0..MaxBufW }
    /\ qout = <<>>
    /\ TextIdle /\ CodeIdle /\ ListIdle /\ MainIdle

NextQuant == QuantizeBuffer

SpecQuant == InitQuant /\ [][NextQuant]_vars

(***************************************************************************)
(* TerminalRenderer::render_list_item (terminal.rs 206-220)                *)
(***************************************************************************)
\* line 212
BulletWidth(bullet_lines) ==
    IF bullet_lines # <<>> THEN ByteLen(bullet_lines[1]) ELSE DefaultBulletWidth

\* lines 215-216: bullet_lines.get(i).copied().unwrap_or("")
GetOrEmpty(ls, i) == IF i <= Len(ls) THEN ls[i] ELSE <<>>

\* lines 207-212
ListItemBlocks(item) ==
    LET bullet == RenderLinePixels(<<"BULLET", " ">>).out
        content == RenderText(item)
    IN [bullet_lines |-> StrLines(bullet),
        content_lines |-> StrLines(content),
        bullet_width |-> BulletWidth(StrLines(bullet))]

\* line 211
MaxLinesOf(blocks) == Max(Len(blocks.bullet_lines), Len(blocks.content_lines))

\* lines 215-217: the i-th output line
ListItemLineText(blocks, i) ==
    PadLeftAligned(GetOrEmpty(blocks.bullet_lines, i), blocks.bullet_width)
    \o GetOrEmpty(blocks.content_lines, i) \o <<"\n">>

\* render_list_item as one computation
RenderListItem(item) ==
    LET blocks == ListItemBlocks(item) IN
    Flatten([i \in 1..MaxLinesOf(blocks) |-> ListItemLineText(blocks, i)])

\* render_code_block as one computation
RenderCodeBlock(code) ==
    <<"TOP", "\n">>
    \o Flatten([n \in 1..Len(StrLines(code)) |-> RenderLinePixels(StrLines(code)[n]).out])
    \o <<"BOTTOM", "\n">>

\* render_blockquote (terminal.rs 187-196); "BAR" is U+2502
RenderBlockquote(s) ==
    Flatten([n \in 1..Len(StrLines(RenderText(s))) |->
                <<"BAR", " ">> \o StrLines(RenderText(s))[n] \o <<"\n">>])

\* render_list (terminal.rs 198-204)
RenderList(items) == Flatten([n \in 1..Len(items) |-> RenderListItem(items[n].content)])

\* lines 207-212
ListItemBegin ==
    /\ pc = "render_list_item"
    /\ item_blocks' = ListItemBlocks(text)
    /\ pc' = "item_lines"
    /\ UNCHANGED <<width, hasFont, text, result, out_lines, textVars, codeVars,
                   quantVars, mainVars>>

\* lines 214-218: one output line
ListItemLine ==
    /\ pc = "item_lines"
    /\ Len(out_lines) < MaxLinesOf(item_blocks)
    /\ LET i == Len(out_lines) + 1 IN
        /\ out_lines' = Append(out_lines,
                               [b |-> GetOrEmpty(item_blocks.bullet_lines, i),
                                c |-> GetOrEmpty(item_blocks.content_lines, i),
                                line |-> ListItemLineText(item_blocks, i)])
        /\ result' = result \o ListItemLineText(item_blocks, i)
    /\ UNCHANGED <<pc, width, hasFont, text, item_blocks, textVars, codeVars, quantVars,
                   mainVars>>

\* line 219
ListItemEnd ==
    /\ pc = "item_lines"
    /\ Len(out_lines) >= MaxLinesOf(item_blocks)
    /\ pc' = "list_item_returned"
    /\ UNCHANGED <<width, hasFont, text, result, out_lines, item_blocks, textVars,
                   codeVars, quantVars, mainVars>>

InitList ==
    /\ pc = "render_list_item"
    /\ width \in Widths
    /\ hasFont \in BOOLEAN
    /\ text \in SeqsUpTo(Alphabet, MaxLen)
    /\ result = <<>>
    /\ TextIdle /\ CodeIdle /\ ListIdle /\ QuantIdle /\ MainIdle

NextList == ListItemBegin \/ ListItemLine \/ ListItemEnd

SpecList == InitList /\ [][NextList]_vars

(***************************************************************************)
(* Claims about the quantizer                                              *)
(***************************************************************************)
\* the half-block table of the specification, one line per case
TableChar(top, bottom) ==
    CASE top /\ bottom   -> "FULL"
      [] top /\ ~bottom  -> "UPPER"
      [] ~top /\ bottom  -> "LOWER"
      [] ~top /\ ~bottom -> " "

\* C3 (half-block quantization): a buffer of width w and height h gives
\* ceil(h/2) rows of w characters and a line terminator each; the character
\* of row r, column x is the table's for top = pixel(2r, x) >= 64 and
\* bottom = pixel(2r+1, x) >= 64, off when 2r+1 >= h; nothing else is emitted.
C3_HalfBlocks ==
    pc = "quantized" =>
        LET w == qbuf.width
            h == qbuf.height
            rows == (h + 1) \div 2
            px(y, x) == qbuf.pixels[y * w + x]
        IN  /\ Len(qout) = rows * (w + 1)
            /\ \A r \in 0..(rows - 1) :
                /\ qout[r * (w + 1) + w + 1] = "\n"
                /\ \A x \in 0..(w - 1) :
                    qout[r * (w + 1) + x + 1] =
                        TableChar(px(2 * r, x) >= 64,
                                  2 * r + 1 < h /\ px(2 * r + 1, x) >= 64)
            /\ \A k \in 1..Len(qout) : qout[k] \in {"FULL", "UPPER", "LOWER", " ", "\n"}

\* a buffer of odd height and two rows of output in which all four
\* characters occur
C3_Witness ==
    /\ pc = "quantized"
    /\ qbuf.height = 3
    /\ {"FULL", "UPPER", "LOWER", " "} \subseteq {qout[k] : k \in 1..Len(qout)}

(***************************************************************************)
(* Claims about render_line_pixels and render_code_block                   *)
(***************************************************************************)
\* the horizontal offset of the k-th glyph: the advances before it
XOffsetOf(glyphs, k) == SumSeq([j \in 1..(k - 1) |-> glyphs[j].advance])

\* the rows of characters of a rendered line
RowsOf(out) == StrLines(out)

\* C9 (placement and hard clip): every glyph is placed at the sum of the
\* advances before it and at maxHeight - glyphHeight, no glyph is placed once
\* the cursor has reached renderWidth = min(totalWidth, width), every read and
\* write of the buffer is at y*renderWidth+x with 0 <= x < renderWidth and
\* 0 <= y < maxHeight, and the buffer holds at (x, y) the pixel of the glyph
\* that covers (x, y), or 0: a pixel outside the rectangle lands nowhere.
C9_PlacementAndClip ==
    \A n \in 1..Len(frames) :
        LET f == frames[n]
            gl == Glyphs(f.line)
            rw == f.render_width
            mh == f.max_height
            covers(k, x, y) ==
                /\ XOffsetOf(gl, k) <= x /\ x < XOffsetOf(gl, k) + gl[k].width
                /\ y >= mh - gl[k].height
        IN  ~f.passthrough =>
            /\ rw = Min(f.total_width, width)
            /\ DOMAIN f.pixels = 0..(rw * mh - 1)
            /\ \A w \in f.writes :
                /\ w.dst_x = XOffsetOf(gl, w.glyph) + w.gx
                /\ w.dst_y = mh - gl[w.glyph].height + w.gy
                /\ 0 <= w.dst_x /\ w.dst_x < rw
                /\ 0 <= w.dst_y /\ w.dst_y < mh
                /\ w.dst_idx = w.dst_y * rw + w.dst_x
                /\ XOffsetOf(gl, w.glyph) < rw
            /\ \A k \in 1..Len(gl) : k > f.placed => XOffsetOf(gl, k) >= rw
            /\ \A r \in f.reads :
                /\ 0 <= r.x /\ r.x < rw /\ 0 <= r.y /\ r.y < mh
                /\ r.idx = r.y * rw + r.x
            /\ \A x \in 0..(rw - 1) : \A y \in 0..(mh - 1) :
                f.pixels[y * rw + x] =
                    IF \E k \in 1..Len(gl) : covers(k, x, y)
                    THEN LET k == CHOOSE m \in 1..Len(gl) : covers(m, x, y) IN
                         gl[k].bitmap[(y - (mh - gl[k].height)) * gl[k].width
                                      + (x - XOffsetOf(gl, k)) + 1]
                    ELSE 0

\* a line with a glyph cut by the right edge, a glyph that was not placed at
\* all, and a glyph shorter than the line
C9_Witness ==
    \E n \in 1..Len(frames) :
        LET f == frames[n]
            gl == Glyphs(f.line)
        IN  /\ ~f.passthrough
            /\ f.placed < Len(f.line)
            /\ \E k \in 1..f.placed :
                /\ XOffsetOf(gl, k) + gl[k].width > f.render_width
                /\ \E w \in f.writes : w.glyph = k
            /\ \E k \in 1..f.placed : 0 < gl[k].height /\ gl[k].height < f.max_height

\* the parts of C6 that the code does: every physical line is rendered on its
\* own and in order, between the two borders, and is never word-wrapped (a
\* rendered line is one group of ceil(maxHeight/2) rows)
CodeLinesInOrder ==
    /\ Len(frames) = Len(StrLines(text))
    /\ \A n \in 1..Len(frames) : frames[n].line = StrLines(text)[n]
    /\ result = <<"TOP", "\n">> \o Flatten([n \in 1..Len(frames) |-> frames[n].out])
                \o <<"BOTTOM", "\n">>
    /\ \A n \in 1..Len(frames) :
        IF frames[n].passthrough
        THEN frames[n].out = frames[n].line
        ELSE Len(RowsOf(frames[n].out)) = (frames[n].max_height + 1) \div 2

\* C6 as claimed: moreover a line whose advances total more than the
\* configured width is rendered in full, its rows wider than the width.
C6_Claimed ==
    pc = "code_block_returned" =>
        /\ CodeLinesInOrder
        /\ \A n \in 1..Len(frames) :
            (~frames[n].passthrough /\ frames[n].total_width > width) =>
                \A r \in 1..Len(RowsOf(frames[n].out)) :
                    Len(RowsOf(frames[n].out)[r]) = frames[n].total_width

\* C6 as amended: a pixel-rendered line has rows of exactly
\* min(total advance, configured width) characters, so a line whose advances
\* total more than the configured width is cut at the width.
C6_CodeLinesClipped ==
    pc = "code_block_returned" =>
        /\ CodeLinesInOrder
        /\ \A n \in 1..Len(frames) :
            ~frames[n].passthrough =>
                \A r \in 1..Len(RowsOf(frames[n].out)) :
                    Len(RowsOf(frames[n].out)[r]) = Min(frames[n].total_width, width)

\* a code block of two lines, one of them wider than the configured width
C6_Witness ==
    /\ pc = "code_block_returned"
    /\ Len(frames) >= 2
    /\ width > 0
    /\ \E n \in 1..Len(frames) :
        ~frames[n].passthrough /\ frames[n].total_width > width

\* C7 (every line is terminated): what render_line_pixels returns for a line
\* is whole output lines, each ended by a line break, so the bottom border of
\* a code block starts on a new output line.
C7_Claimed ==
    /\ \A n \in 1..Len(frames) :
        frames[n].out = <<>> \/ Last(frames[n].out) = "\n"
    /\ \A k \in 2..Len(result) : result[k] = "BOTTOM" => result[k - 1] = "\n"

(***************************************************************************)
(* Claims about render_list_item                                           *)
(***************************************************************************)
\* C5 (list item layout): the item has max(bullet lines, content lines)
\* lines, a missing line of the shorter block is blank, and on every line
\* the content starts at the column that is the number of characters of the
\* first line of the bullet block.
C5_Claimed ==
    pc = "list_item_returned" =>
        LET bl == item_blocks.bullet_lines
            cl == item_blocks.content_lines
        IN  /\ Len(out_lines) = Max(Len(bl), Len(cl))
            /\ \A i \in 1..Len(out_lines) :
                /\ out_lines[i].b = (IF i <= Len(bl) THEN bl[i] ELSE <<>>)
                /\ out_lines[i].c = (IF i <= Len(cl) THEN cl[i] ELSE <<>>)
                /\ bl # <<>> =>
                    Len(out_lines[i].line) - 1 - Len(out_lines[i].c) = CharLen(bl[1])

(***************************************************************************)
(* parse_markdown (markdown.rs 78-146)                                     *)
(***************************************************************************)
\* ElementType
Heading(level) == [kind |-> "Heading", level |-> level]
Paragraph == [kind |-> "Paragraph", level |-> 0]
Image == [kind |-> "Image", level |-> 0]

\* MarkdownElement
Element(etype, content, attributes) ==
    [element_type |-> etype, content |-> content, children |-> <<>>,
     attributes |-> attributes]

\* lines 81-82, with what the model records of the run: the branch the last
\* line took and whether a slice was out of range
NoParser ==
    [elements |-> <<>>, current_content |-> <<>>, current_type |-> Paragraph,
     branch |-> "none", panicked |-> FALSE]

\* str::starts_with, str::ends_with, and the range check of a slice
StartsWith(s, prefix) ==
    Len(s) >= Len(prefix) /\ SubSeq(s, 1, Len(prefix)) = prefix
EndsWith(s, c) == s # <<>> /\ Last(s) = c
SliceOk(s, from, to) == from <= to /\ to <= Len(s)
\* str::trim().is_empty()
IsBlankLine(s) == \A k \in 1..Len(s) : IsWhitespace(s[k])

\* lines 84-94
FlushAlways(st) ==
    [st EXCEPT !.elements = Append(st.elements,
                                   Element(st.current_type, st.current_content, {})),
               !.current_content = <<>>]
Flush(st) ==
    IF st.current_content # <<>>
    THEN [st EXCEPT !.elements = Append(st.elements,
                                        Element(st.current_type, st.current_content, {})),
                    !.current_content = <<>>]
    ELSE st

\* line 115
IsImageLineByPrefix(line) == StartsWith(line, <<"!", "[", "]", "(">>)
IsImageLine(line) == StartsWith(line, <<"!", "[", "]", "(">>) /\ EndsWith(line, ")")

\* lines 97-139: one line of the input
ParseStep(st, line) ==
    IF StartsWith(line, <<"#", " ">>)
    THEN [Flush(st) EXCEPT
            !.elements = Append(Flush(st).elements,
                                Element(Heading(1), SubSeq(line, 3, Len(line)), {})),
            !.current_type = Paragraph,
            !.branch = "heading1",
            !.panicked = st.panicked \/ ~SliceOk(line, 2, Len(line))]
    ELSE IF StartsWith(line, <<"#", "#", " ">>)
    THEN [Flush(st) EXCEPT
            !.elements = Append(Flush(st).elements,
                                Element(Heading(2), SubSeq(line, 4, Len(line)), {})),
            !.current_type = Paragraph,
            !.branch = "heading2",
            !.panicked = st.panicked \/ ~SliceOk(line, 3, Len(line))]
    ELSE IF IsImageLine(line)
    THEN [Flush(st) EXCEPT
            !.elements = Append(Flush(st).elements,
                                Element(Image, <<>>,
                                        {<<"src", SubSeq(line, 5, Len(line) - 1)>>})),
            !.current_type = Paragraph,
            !.branch = "image",
            !.panicked = st.panicked \/ ~SliceOk(line, 4, Len(line) - 1)]
    ELSE IF IsBlankLine(line)
    THEN [Flush(st) EXCEPT !.current_type = Paragraph, !.branch = "blank"]
    ELSE IF st.current_type = Paragraph
    THEN [st EXCEPT
            !.current_content =
                (IF st.current_content # <<>> THEN st.current_content \o <<"\n">>
                 ELSE <<>>) \o line,
            !.branch = "append"]
    ELSE [Flush(st) EXCEPT
            !.current_content = Flush(st).current_content \o line,
            !.current_type = Paragraph,
            !.branch = "retype"]

\* lines 80-96
ParseBegin ==
    /\ pc = "process_markdown"
    /\ lines_in' = StrLines(text)
    /\ pi' = 1
    /\ parser' = NoParser
    /\ pc' = "parse"
    /\ UNCHANGED <<width, hasFont, text, result, args, io, arms, textVars, codeVars,
                   listVars, quantVars>>

\* lines 96-140
ParseLine ==
    /\ pc = "parse"
    /\ pi <= Len(lines_in)
    /\ ~parser.panicked
    /\ parser' = ParseStep(parser, lines_in[pi])
    /\ pi' = pi + 1
    /\ UNCHANGED <<pc, width, hasFont, text, result, args, io, lines_in, arms, textVars,
                   codeVars, listVars, quantVars>>

\* lines 142-145
ParseEnd ==
    /\ pc = "parse"
    /\ pi > Len(lines_in)
    /\ ~parser.panicked
    /\ parser' = Flush(parser)
    /\ pc' = "render"
    /\ UNCHANGED <<width, hasFont, text, result, args, io, lines_in, pi, arms, textVars,
                   codeVars, listVars, quantVars>>

(***************************************************************************)
(* process_markdown (markdown.rs 26-76) and ImageProcessor (image.rs)      *)
(***************************************************************************)
\* image.rs 14-22: the file loads as a PNG or it does not
ProcessImage(src, loaded) ==
    IF loaded THEN <<"[Unicode block rendering: WxH]">>
    ELSE <<"[Failed to load image: ">> \o src \o <<"]">>

\* line 43: format!("{} {}", "#".repeat(level), content)
HeadingText(level, content) == [k \in 1..level |-> "#"] \o <<" ">> \o content

\* lines 41-71: the arm of the match and what it appends
RenderArm(element, loaded) ==
    LET kind == element.element_type.kind IN
    CASE kind = "Heading"    -> RenderText(HeadingText(element.element_type.level,
                                                       element.content))
      [] kind = "Paragraph"  -> RenderText(element.content)
      [] kind = "CodeBlock"  -> RenderCodeBlock(element.content)
      [] kind = "Image"      ->
            IF \E a \in element.attributes : a[1] = "src"
            THEN ProcessImage((CHOOSE a \in element.attributes : a[1] = "src")[2], loaded)
            ELSE <<>>
      [] kind = "Text"       -> RenderText(element.content)
      [] kind = "Blockquote" -> RenderBlockquote(element.content)
      [] kind = "List"       -> RenderList(element.children)
      [] kind = "ListItem"   -> RenderListItem(element.content)

\* lines 40-73: one element
RenderElement ==
    /\ pc = "render"
    /\ Len(arms) < Len(parser.elements)
    /\ LET element == parser.elements[Len(arms) + 1] IN
        /\ \E loaded \in (IF element.element_type.kind = "Image" THEN BOOLEAN ELSE {FALSE}) :
              result' = result \o RenderArm(element, loaded) \o <<"\n">>
        /\ arms' = Append(arms, element.element_type.kind)
    /\ UNCHANGED <<pc, width, hasFont, text, args, io, lines_in, pi, parser, textVars,
                   codeVars, listVars, quantVars>>

(***************************************************************************)
(* main (main.rs 30-51)                                                    *)
(***************************************************************************)
\* the lines a document of the model is made of
LineSet ==
    { <<"#", " ", "a">>, <<"#", "#", " ", "b">>, <<"!", "[", "]", "(", "p", ")">>,
      <<"!", "[", "]", "(", ")">>, <<>>, <<" ">>, <<"a">>, <<"#", "a">>,
      <<"!", "[", "]", "(", "p">> }

RECURSIVE JoinLines(_)
JoinLines(ls) ==
    IF ls = <<>> THEN <<>>
    ELSE IF Len(ls) = 1 THEN Head(ls)
    ELSE Head(ls) \o <<"\n">> \o JoinLines(Tail(ls))

Documents == {JoinLines(ls) : ls \in SeqsUpTo(LineSet, MaxLines)}

\* lines 33-37: --stdin given, and stdin is read or the read fails
ReadStdin ==
    /\ pc = "main"
    /\ args.stdin
    /\ \/ /\ \E content \in Documents : text' = content
          /\ io' = [io EXCEPT !.read = "ok"]
          /\ pc' = "process_markdown"
       \/ /\ text' = text
          /\ io' = [io EXCEPT !.read = "failed", !.stderr = <<"Error: ">>, !.exit = 1]
          /\ pc' = "exited"
    /\ UNCHANGED <<width, hasFont, result, args, lines_in, pi, parser, arms, textVars,
                   codeVars, listVars, quantVars>>

\* lines 38-39: a file given and no --stdin, and the file is read or not
ReadFile ==
    /\ pc = "main"
    /\ ~args.stdin /\ args.file
    /\ \/ /\ \E content \in Documents : text' = content
          /\ io' = [io EXCEPT !.read = "ok"]
          /\ pc' = "process_markdown"
       \/ /\ text' = text
          /\ io' = [io EXCEPT !.read = "failed", !.stderr = <<"Error: ">>, !.exit = 1]
          /\ pc' = "exited"
    /\ UNCHANGED <<width, hasFont, result, args, lines_in, pi, parser, arms, textVars,
                   codeVars, listVars, quantVars>>

\* lines 40-43
NoInputFallsThrough ==
    /\ pc = "main"
    /\ ~args.stdin /\ ~args.file
    /\ io' = [io EXCEPT !.stderr = <<"No input specified">>]
    /\ pc' = "process_markdown"
    /\ UNCHANGED <<width, hasFont, text, result, args, lines_in, pi, parser, arms,
                   textVars, codeVars, listVars, quantVars>>
NoInput ==
    /\ pc = "main"
    /\ ~args.stdin /\ ~args.file
    /\ io' = [io EXCEPT !.stderr = <<"No input specified">>, !.exit = 1]
    /\ pc' = "exited"
    /\ UNCHANGED <<width, hasFont, text, result, args, lines_in, pi, parser, arms,
                   textVars, codeVars, listVars, quantVars>>

\* lines 48-50, after the last element of line 46's process_markdown
PrintRendered ==
    /\ pc = "render"
    /\ Len(arms) >= Len(parser.elements)
    /\ io' = [io EXCEPT !.stdout = result \o <<"\n">>, !.exit = 0]
    /\ pc' = "exited"
    /\ UNCHANGED <<width, hasFont, text, result, args, lines_in, pi, parser, arms,
                   textVars, codeVars, listVars, quantVars>>

InitMain ==
    /\ pc = "main"
    /\ width \in {0, MaxWidth}
    /\ hasFont = TRUE
    /\ text = <<>> /\ result = <<>>
    /\ args \in [stdin : BOOLEAN, file : BOOLEAN]
    /\ io = NoIo /\ lines_in = <<>> /\ pi = 0 /\ parser = NoParser /\ arms = <<>>
    /\ TextIdle /\ CodeIdle /\ ListIdle /\ QuantIdle

NextMain ==
    \/ ReadStdin \/ ReadFile \/ NoInput
    \/ ParseBegin \/ ParseLine \/ ParseEnd
    \/ RenderElement \/ PrintRendered

SpecMain == InitMain /\ [][NextMain]_vars

(***************************************************************************)
(* Claims about parse_markdown, process_markdown and main                  *)
(***************************************************************************)
\* the grammar of the specification: the class of a line, read off its
\* characters
LineClass(l) ==
    CASE Len(l) >= 2 /\ l[1] = "#" /\ l[2] = " " -> "h1"
      [] Len(l) >= 3 /\ l[1] = "#" /\ l[2] = "#" /\ l[3] = " " -> "h2"
      [] Len(l) >= 5 /\ l[1] = "!" /\ l[2] = "[" /\ l[3] = "]" /\ l[4] = "("
            /\ l[Len(l)] = ")" -> "image"
      [] \A k \in 1..Len(l) : l[k] \in {" ", "\n"} -> "blank"
      [] OTHER -> "other"

\* the lines at which a unit starts: a trigger line, or the first line of a
\* maximal run of other lines
UnitStarts(ls) ==
    {i \in 1..Len(ls) :
        \/ LineClass(ls[i]) \in {"h1", "h2", "image"}
        \/ LineClass(ls[i]) = "other" /\ (i = 1 \/ LineClass(ls[i - 1]) # "other")}

\* the last line of the run of other lines that starts at line i
RunEnd(ls, i) ==
    CHOOSE j \in i..Len(ls) :
        /\ \A m \in i..j : LineClass(ls[m]) = "other"
        /\ (j = Len(ls) \/ LineClass(ls[j + 1]) # "other")

\* the unit that starts at line i
UnitAt(ls, i) ==
    CASE LineClass(ls[i]) = "h1" ->
            [element_type |-> [kind |-> "Heading", level |-> 1],
             content |-> SubSeq(ls[i], 3, Len(ls[i])),
             children |-> <<>>, attributes |-> {}]
      [] LineClass(ls[i]) = "h2" ->
            [element_type |-> [kind |-> "Heading", level |-> 2],
             content |-> SubSeq(ls[i], 4, Len(ls[i])),
             children |-> <<>>, attributes |-> {}]
      [] LineClass(ls[i]) = "image" ->
            [element_type |-> [kind |-> "Image", level |-> 0],
             content |-> <<>>,
             children |-> <<>>,
             attributes |-> {<<"src", SubSeq(ls[i], 5, Len(ls[i]) - 1)>>}]
      [] LineClass(ls[i]) = "other" ->
            [element_type |-> [kind |-> "Paragraph", level |-> 0],
             content |-> JoinLines(SubSeq(ls, i, RunEnd(ls, i))),
             children |-> <<>>, attributes |-> {}]

RECURSIVE UnitsFrom(_, _)
UnitsFrom(ls, starts) ==
    IF starts = {} THEN <<>>
    ELSE LET i == CHOOSE m \in starts : \A n \in starts : m <= n IN
         <<UnitAt(ls, i)>> \o UnitsFrom(ls, starts \ {i})
ExpectedUnits(ls) == UnitsFrom(ls, UnitStarts(ls))

\* C4 (parser grammar): the parser never fails, and when it has read all the
\* lines its units are, in input order, a Heading(1) per "# " line, a
\* Heading(2) per "## " line, an Image per "![](path)" line and one Paragraph
\* per maximal run of other non-blank lines, its content the lines of the run
\* joined by newlines; a blank line gives no unit.
C4_ParserGrammar ==
    /\ ~parser.panicked
    /\ pc \in {"render", "exited"} /\ io.read = "ok" =>
            parser.elements = ExpectedUnits(lines_in)

\* a parsed document with a paragraph of two lines that a trigger line or a
\* blank line ends, and a unit after it
C4_Witness ==
    /\ pc = "render"
    /\ \E k \in 1..Len(parser.elements) :
        /\ parser.elements[k].element_type.kind = "Paragraph"
        /\ \E m \in 1..Len(parser.elements[k].content) :
              parser.elements[k].content[m] = "\n"
        /\ k < Len(parser.elements)

\* what the process has done of parsing, rendering and printing
NothingProcessed ==
    /\ lines_in = <<>> /\ pi = 0 /\ parser = NoParser
    /\ arms = <<>> /\ result = <<>> /\ io.stdout = <<>>

\* C8 (input acquisition precedes rendering): the document is parsed and
\* rendered only after the input was read; without a file and without
\* --stdin the process reports "No input specified" and ends with a non-zero
\* status, a failed read ends it with an error, and in both cases nothing
\* was parsed, rendered or printed.
C8_InputBeforeRendering ==
    /\ ~NothingProcessed \/ pc \in {"process_markdown", "parse", "render"} =>
            io.read = "ok" /\ (args.stdin \/ args.file)
    /\ pc = "exited" /\ ~args.stdin /\ ~args.file =>
            io.stderr = <<"No input specified">> /\ io.exit # 0 /\ NothingProcessed
    /\ io.read = "failed" =>
            pc = "exited" /\ io.exit # 0 /\ io.stderr # <<>> /\ NothingProcessed
    /\ pc = "exited" <=> io.exit # Running
    /\ io.exit = 0 => io.read = "ok"

\* the process has ended without a file and without --stdin
C8_Witness ==
    pc = "exited" /\ ~args.stdin /\ ~args.file /\ io.exit = 1

\* C10 (parser invariant): the accumulator's type is always Paragraph and
\* the branch for another type is never taken, an emitted Paragraph has
\* content, every emitted unit is a Heading(1), Heading(2), Image or
\* Paragraph, and process_markdown takes no other arm of its match.
C10_OnlyFourUnits ==
    /\ parser.current_type = [kind |-> "Paragraph", level |-> 0]
    /\ parser.branch # "retype"
    /\ \A k \in 1..Len(parser.elements) :
        LET e == parser.elements[k] IN
        /\ e.element_type \in {[kind |-> "Heading", level |-> 1],
                               [kind |-> "Heading", level |-> 2],
                               [kind |-> "Image", level |-> 0],
                               [kind |-> "Paragraph", level |-> 0]}
        /\ e.element_type.kind = "Paragraph" => e.content # <<>>
    /\ \A k \in 1..Len(arms) : arms[k] \in {"Heading", "Image", "Paragraph"}

\* a document whose units of all four kinds were all rendered
C10_Witness ==
    /\ pc = "exited" /\ io.exit = 0
    /\ {"Heading", "Image", "Paragraph"} \subseteq {arms[k] : k \in 1..Len(arms)}
    /\ \E k \in 1..Len(parser.elements) : parser.elements[k].element_type.level = 2

====
